---- MODULE Spec2Model ----
(***************************************************************************)
(* Model of vueprom.py: the self-rescheduling Emporia poller               *)
(* (poll_emporia driven by threading.Timer objects), the shutdown routine  *)
(* die(), the per-cycle device aggregation, the matching of usage readings *)
(* to channels, the label derivation and the writes to the USAGE_WATTS     *)
(* gauge.                                                                  *)
(*                                                                         *)
(* Python strings are sequences of one-character strings.  An optional     *)
(* value (a field that may be None) is a sequence of length 0 (None) or 1  *)
(* (the value).                                                            *)
(***************************************************************************)
EXTENDS Integers, Sequences, FiniteSets, TLC

(***************************************************************************)
(* Bounds of the model.                                                    *)
(***************************************************************************)
MaxCycles == 2
MaxDevices == 2
MaxReadings == 2
MaxRecords == 3
MaxChannels == 1
MaxNameLen == 11
MaxMatchChannels == 2

(***************************************************************************)
(* Program constants.                                                      *)
(***************************************************************************)
minutesInAnHour == 60
wattsInAKw == 1000
\* create_app: poll_interval = 60
CreateAppPollInterval == 60
\* create_app: threading.Timer(1, ...)
FirstPollDelay == 1
\* the literal "poll_interval":60 in the kwargs of every Timer poll_emporia creates
KwargsPollInterval == 60
\* threading.Timer(5, ...) of the except branch
ErrorRetryDelay == 5
\* re.sub(pattern, repl, string, re.I | re.M): the fourth positional parameter
\* of re.sub is count, so the flags value 2 | 8 = 10 is the replacement count
ReSubCount == 10

None == <<>>
Some(x) == <<x>>
IsNone(o) == Len(o) = 0
Val(o) == o[1]

(***************************************************************************)
(* Label derivation (line 148).                                            *)
(***************************************************************************)
LowerChars == <<"a","b","c","d","e","f","g","h","i","j","k","l","m",
                "n","o","p","q","r","s","t","u","v","w","x","y","z">>
UpperChars == <<"A","B","C","D","E","F","G","H","I","J","K","L","M",
                "N","O","P","Q","R","S","T","U","V","W","X","Y","Z">>
DigitChars == {"0","1","2","3","4","5","6","7","8","9"}

\* str.lower() on one character
LowerChar(c) ==
    IF \E i \in 1..26 : UpperChars[i] = c
    THEN LowerChars[CHOOSE i \in 1..26 : UpperChars[i] = c]
    ELSE c

\* str.lower()
Lower(s) == [i \in 1..Len(s) |-> LowerChar(s[i])]

\* the character class [a-z0-9_]
InClass(c) == (\E i \in 1..26 : LowerChars[i] = c) \/ c \in DigitChars \/ c = "_"

\* re.sub(r'[^a-z0-9_]', '_', s, count): the first count characters outside
\* the class are replaced, left to right; the rest of s is copied
RECURSIVE SubOutside(_, _)
SubOutside(s, count) ==
    IF s = <<>> THEN <<>>
    ELSE IF ~InClass(Head(s)) /\ count > 0
         THEN <<"_">> \o SubOutside(Tail(s), count - 1)
         ELSE <<Head(s)>> \o SubOutside(Tail(s), count)

\* re.sub(r'_+', '_', s): every maximal run of '_' becomes one '_'
RECURSIVE SubUnderscores(_)
SubUnderscores(s) ==
    IF s = <<>> THEN <<>>
    ELSE IF Head(s) = "_" /\ Len(s) > 1 /\ s[2] = "_"
         THEN SubUnderscores(Tail(s))
         ELSE <<Head(s)>> \o SubUnderscores(Tail(s))

\* channel_label = re.sub(r'_+', '_', re.sub(r'[^a-z0-9_]','_', name.lower(), re.I | re.M))
\* (each call is evaluated once, on the value the inner call returned)
ChannelLabel(name) ==
    CHOOSE channel_label \in
        { SubUnderscores(replaced) :
            replaced \in { SubOutside(lowered, ReSubCount) :
                           lowered \in { Lower(s) : s \in {name} } } } : TRUE

(***************************************************************************)
(* What the remote API may return.                                         *)
(***************************************************************************)
Mains == <<"1", ",", "2", ",", "3">>
Seven == <<"7">>

\* pyemvue channels: channel_num (a string), name (a string or None) and
\* channel_multiplier
Channels ==
    { [channel_num |-> Mains, name |-> None, channel_multiplier |-> 1],
      [channel_num |-> Seven, name |-> None, channel_multiplier |-> 2],
      [channel_num |-> Seven, name |-> Some(<<"A", "/", "C">>), channel_multiplier |-> 1] }

RECURSIVE SeqsUpTo(_, _)
SeqsUpTo(S, n) ==
    IF n = 0 THEN {<<>>}
    ELSE LET shorter == SeqsUpTo(S, n - 1)
         IN  shorter \cup { Append(q, x) : q \in { r \in shorter : Len(r) = n - 1 }, x \in S }

\* the channels attribute of a raw device record: None or a list
ChannelLists == {None} \cup { Some(l) : l \in SeqsUpTo(Channels, MaxChannels) }

DeviceGids == {1, 2}
DeviceNames == {<<"P">>, <<"Q">>}

\* the records vue.get_devices() returns
RawDevices ==
    [device_gid : DeviceGids, device_name : DeviceNames, channels : ChannelLists]

\* the lists vue.get_devices() returns, for the aggregation alone
RawDeviceLists == SeqsUpTo(RawDevices, MaxRecords)

\* the records and lists vue.get_devices() returns in the poll cycles: a
\* device has no channels attribute or the unnamed mains channel
PolledChannelLists ==
    { None,
      Some(<<[channel_num |-> Mains, name |-> None, channel_multiplier |-> 2]>>) }

PolledDevices ==
    [device_gid : DeviceGids, device_name : {<<"P">>}, channels : PolledChannelLists]

DeviceLists == SeqsUpTo(PolledDevices, MaxDevices)

\* the readings vue.get_devices_usage() returns: channel_num and usage (None
\* or kWh)
Readings ==
    [channel_num : {Mains}, usage : {None, Some(1), Some(2)}]
        \cup [channel_num : {Seven}, usage : {Some(1)}]

UsageLists == SeqsUpTo(Readings, MaxReadings)

(***************************************************************************)
(* Aggregation of the raw records by gid (lines 86-101).  The dict devices *)
(* is a sequence in insertion order.  The result is the dict, or the       *)
(* TypeError that list + None raises.                                      *)
(***************************************************************************)
GidIndex(devices, gid) ==
    IF \E i \in 1..Len(devices) : devices[i].device_gid = gid
    THEN CHOOSE i \in 1..Len(devices) : devices[i].device_gid = gid
    ELSE 0

\* AggregateStep without the continue of line 94: the first record of a gid
\* goes on to lines 98-101 and is merged with itself
AggregateStepNoContinue(devices, device) ==
    LET i == GidIndex(devices, device.device_gid) IN
    IF i = 0
    THEN [raised |-> FALSE,
          devices |-> Append(devices,
                        [device EXCEPT !.channels =
                            IF IsNone(device.channels) THEN Some(<<>>)
                            ELSE Some(Val(device.channels) \o Val(device.channels))])]
    ELSE IF IsNone(devices[i].channels)
    THEN [raised |-> FALSE,
          devices |-> [devices EXCEPT ![i].channels = Some(<<>>)]]
    ELSE IF IsNone(device.channels)
    THEN [raised |-> TRUE, devices |-> devices]
    ELSE [raised |-> FALSE,
          devices |-> [devices EXCEPT ![i].channels =
                          Some(Val(devices[i].channels) \o Val(device.channels))]]

\* one iteration of the loop of line 89 on the dict devices
AggregateStep(devices, device) ==
    LET i == GidIndex(devices, device.device_gid) IN
    IF i = 0
    THEN \* lines 90-94: first record of its gid is stored; it is the cached entry
         [raised |-> FALSE, devices |-> Append(devices, device)]
    ELSE IF IsNone(devices[i].channels)
    THEN \* lines 98-99
         [raised |-> FALSE,
          devices |-> [devices EXCEPT ![i].channels = Some(<<>>)]]
    ELSE IF IsNone(device.channels)
    THEN \* line 101: list + None
         [raised |-> TRUE, devices |-> devices]
    ELSE \* line 101
         [raised |-> FALSE,
          devices |-> [devices EXCEPT ![i].channels =
                          Some(Val(devices[i].channels) \o Val(device.channels))]]

RECURSIVE AggregateFrom(_, _)
AggregateFrom(devices, device_list) ==
    IF device_list = <<>> THEN [raised |-> FALSE, devices |-> devices]
    ELSE LET r == AggregateStep(devices, Head(device_list)) IN
         IF r.raised THEN r ELSE AggregateFrom(r.devices, Tail(device_list))

Aggregate(device_list) == AggregateFrom(<<>>, device_list)

(***************************************************************************)
(* Matching a reading to a channel and naming it (lines 120-146).          *)
(***************************************************************************)
\* FindChannel taking the last channel with the reading's number
FindChannelLast(channels, channel_num) ==
    IF \E i \in 1..Len(channels) : channels[i].channel_num = channel_num
    THEN CHOOSE i \in 1..Len(channels) :
            /\ channels[i].channel_num = channel_num
            /\ \A j \in (i + 1)..Len(channels) : channels[j].channel_num # channel_num
    ELSE 0

\* next(filter(finder, device.channels)): index of the first channel with the
\* reading's number, 0 for StopIteration
FindChannel(channels, channel_num) ==
    IF \E i \in 1..Len(channels) : channels[i].channel_num = channel_num
    THEN CHOOSE i \in 1..Len(channels) :
            /\ channels[i].channel_num = channel_num
            /\ \A j \in 1..(i - 1) : channels[j].channel_num # channel_num
    ELSE 0

\* the name of lines 123-142 for a reading matched to channel
ChannelName(device_name, channel, channel_num) ==
    IF ~IsNone(channel.name) THEN Val(channel.name)
    ELSE IF channel_num = Mains THEN device_name \o <<" ", "M", "a", "i", "n", "s">>
    ELSE device_name \o <<"-">> \o channel_num

\* Watts leaving out the minutes of an hour
WattsWithoutMinutes(kwhUsage) == wattsInAKw * kwhUsage

\* line 151; usages and watts are counted in hundredths (1 is 0.01 kWh,
\* 60000 is 600.00 W), multipliers in units
Watts(kwhUsage) == wattsInAKw * minutesInAnHour * kwhUsage

\* lines 121-142: the locals channel_name and usage_multiplier of a reading u
\* that matches a channel of device
ReadingLocals(device, u) ==
    LET channel == Val(device.channels)[FindChannel(Val(device.channels), u.channel_num)]
    IN  [channel_name |-> ChannelName(device.device_name, channel, u.channel_num),
         usage_multiplier |-> channel.channel_multiplier]

\* lines 148-152: the label tuple and the watts set for a matched reading u
\* with a usage
Sample(device, u) ==
    LET l == ReadingLocals(device, u)
        kwhUsage == Val(u.usage) * l.usage_multiplier
    IN  [key |-> <<ChannelLabel(l.channel_name), u.channel_num,
                   device.device_name, device.device_gid>>,
         watts |-> Watts(kwhUsage)]

\* the channels one reading is matched against: those of Channels and a named
\* channel with the number 1,2,3
MatchChannels ==
    Channels \cup {[channel_num |-> Mains, name |-> Some(<<"B">>), channel_multiplier |-> 3]}

MatchDevices ==
    [device_gid : {1}, device_name : DeviceNames,
     channels : {Some(c) : c \in SeqsUpTo(MatchChannels, MaxMatchChannels)}]

MatchReadings == [channel_num : {Mains, Seven}, usage : {None, Some(1), Some(2)}]

(***************************************************************************)
(* State.                                                                  *)
(***************************************************************************)
VARIABLES
    timers,         \* the threading.Timer objects started and not yet fired or cancelled
    poller_thread,  \* the global: id of the Timer it refers to
    pc,             \* position of the poll_emporia invocation, "idle" when none runs
    retry_login,    \* parameter of the running invocation
    poll_interval,  \* parameter of the running invocation
    devices,        \* the dict devices of the running invocation
    didx,           \* position of the loop of line 104
    channels_usage, \* the readings fetched for the current device
    uidx,           \* position of the loop of line 120
    USAGE_WATTS,    \* the gauge: a set of [key, watts], one per label tuple
    dead,           \* die() has run
    cycle,          \* invocations of poll_emporia started so far
    logged_in,      \* the running invocation has logged in
    last_outcome,   \* how the latest finished invocation ended
    watts_before,   \* the gauge when the running invocation started
    name,           \* label derivation alone: the string name of line 148
    label,          \* label derivation alone: the channel_label computed from name, or None
    device_list,    \* aggregation alone: the list vue.get_devices() returned
    aggregated,     \* aggregation alone: the outcome of lines 86-101 on device_list, or None
    one_device,     \* one reading alone: the cached device of line 117
    one_reading,    \* one reading alone: the u of line 120
    locals,         \* one reading alone: channel_name and usage_multiplier once assigned, or None
    sample,         \* one reading alone: the label tuple and watts handed to the gauge, or None
    outcome         \* one reading alone: "none", then "skipped", "raised" or "set"

vars == <<timers, poller_thread, pc, retry_login, poll_interval, devices, didx,
          channels_usage, uidx, USAGE_WATTS, dead, cycle, logged_in, last_outcome,
          watts_before, name, label, device_list, aggregated,
          one_device, one_reading, locals, sample, outcome>>

reading_vars == <<one_device, one_reading, locals, sample, outcome>>

alone == <<name, label, device_list, aggregated, reading_vars>>

pollVars == <<timers, poller_thread, pc, retry_login, poll_interval, devices, didx,
              channels_usage, uidx, USAGE_WATTS, dead, cycle, logged_in, last_outcome,
              watts_before>>

\* threading.Timer(interval, poll_emporia, kwargs={...})
Timer(id, interval, retry, interval_kwarg) ==
    [id |-> id, interval |-> interval, retry_login |-> retry, poll_interval |-> interval_kwarg]

\* create_app (lines 165-185) has run: the first Timer is started
Init ==
    /\ timers = {Timer(0, FirstPollDelay, TRUE, CreateAppPollInterval)}
    /\ poller_thread = 0
    /\ pc = "idle"
    /\ retry_login = FALSE
    /\ poll_interval = 0
    /\ devices = <<>>
    /\ didx = 0
    /\ channels_usage = <<>>
    /\ uidx = 0
    /\ USAGE_WATTS = {}
    /\ dead = FALSE
    /\ cycle = 0
    /\ logged_in = FALSE
    /\ last_outcome = "none"
    /\ watts_before = {}
    /\ name = <<>>
    /\ label = None
    /\ device_list = <<>>
    /\ aggregated = None
    /\ one_device = None
    /\ one_reading = None
    /\ locals = None
    /\ sample = None
    /\ outcome = "none"

\* Reschedule handing the 5 of the except branch on as the next poll_interval
ReschedulePassingRetryDelay(interval, retry, how) ==
    /\ timers' = timers \cup {Timer(cycle, interval, retry, ErrorRetryDelay)}
    /\ poller_thread' = cycle
    /\ pc' = "idle"
    /\ last_outcome' = how
    /\ retry_login' = FALSE
    /\ poll_interval' = 0
    /\ devices' = <<>>
    /\ didx' = 0
    /\ channels_usage' = <<>>
    /\ uidx' = 0
    /\ logged_in' = FALSE
    /\ watts_before' = {}
    /\ UNCHANGED <<USAGE_WATTS, dead, cycle, alone>>

\* poller_thread = threading.Timer(...); poller_thread.start(), and the
\* invocation returns: its parameters and locals are gone; how records how
\* it ended
Reschedule(interval, retry, how) ==
    /\ timers' = timers \cup {Timer(cycle, interval, retry, KwargsPollInterval)}
    /\ poller_thread' = cycle
    /\ pc' = "idle"
    /\ last_outcome' = how
    /\ retry_login' = FALSE
    /\ poll_interval' = 0
    /\ devices' = <<>>
    /\ didx' = 0
    /\ channels_usage' = <<>>
    /\ uidx' = 0
    /\ logged_in' = FALSE
    /\ watts_before' = {}
    /\ UNCHANGED <<USAGE_WATTS, dead, cycle, alone>>

\* lines 154-156
RescheduleAfterSuccess == Reschedule(poll_interval, FALSE, "ok")

\* RescheduleAfterLoginFailure with the delay of the except branch of line 160
RescheduleAfterLoginFailureShort == Reschedule(ErrorRetryDelay, TRUE, "login_failed")

\* the login failure returning without starting a Timer
ReturnAfterLoginFailure ==
    /\ pc' = "idle"
    /\ last_outcome' = "login_failed"
    /\ retry_login' = FALSE
    /\ poll_interval' = 0
    /\ devices' = <<>>
    /\ didx' = 0
    /\ channels_usage' = <<>>
    /\ uidx' = 0
    /\ logged_in' = FALSE
    /\ watts_before' = {}
    /\ UNCHANGED <<timers, poller_thread, USAGE_WATTS, dead, cycle, alone>>

\* lines 76-79
RescheduleAfterLoginFailure == Reschedule(poll_interval, TRUE, "login_failed")

\* RescheduleAfterError waiting the poll interval
RescheduleAfterErrorAtInterval(how) == Reschedule(poll_interval, TRUE, how)

\* RescheduleAfterError without asking for a login
RescheduleAfterErrorNoLogin(how) == Reschedule(ErrorRetryDelay, FALSE, how)

\* lines 157-162; how is "api_error" for an exception of a remote call and
\* "type_error" for one raised by the code of the cycle itself
RescheduleAfterError(how) == Reschedule(ErrorRetryDelay, TRUE, how)

\* TimerFire leaving the fired Timer among the pending ones
TimerFireKeepingTimer ==
    /\ pc = "idle"
    /\ cycle < MaxCycles
    /\ \E t \in timers :
        /\ timers' = timers
        /\ retry_login' = t.retry_login
        /\ poll_interval' = t.poll_interval
        /\ pc' = IF t.retry_login THEN "login" ELSE "get_devices"
    /\ cycle' = cycle + 1
    /\ logged_in' = FALSE
    /\ watts_before' = USAGE_WATTS
    /\ devices' = <<>>
    /\ didx' = 0
    /\ channels_usage' = <<>>
    /\ uidx' = 0
    /\ UNCHANGED <<poller_thread, USAGE_WATTS, dead, last_outcome, alone>>

\* TimerFire going to vue.get_devices whatever retry_login says
TimerFireSkippingLogin ==
    /\ pc = "idle"
    /\ cycle < MaxCycles
    /\ \E t \in timers :
        /\ timers' = timers \ {t}
        /\ retry_login' = t.retry_login
        /\ poll_interval' = t.poll_interval
        /\ pc' = "get_devices"
    /\ cycle' = cycle + 1
    /\ logged_in' = FALSE
    /\ watts_before' = USAGE_WATTS
    /\ devices' = <<>>
    /\ didx' = 0
    /\ channels_usage' = <<>>
    /\ uidx' = 0
    /\ UNCHANGED <<poller_thread, USAGE_WATTS, dead, last_outcome, alone>>

\* a started Timer fires: Timer.run calls poll_emporia(**kwargs)
TimerFire ==
    /\ pc = "idle"
    /\ cycle < MaxCycles
    /\ \E t \in timers :
        /\ timers' = timers \ {t}
        /\ retry_login' = t.retry_login
        /\ poll_interval' = t.poll_interval
        /\ pc' = IF t.retry_login THEN "login" ELSE "get_devices"
    /\ cycle' = cycle + 1
    /\ logged_in' = FALSE
    /\ watts_before' = USAGE_WATTS
    /\ devices' = <<>>
    /\ didx' = 0
    /\ channels_usage' = <<>>
    /\ uidx' = 0
    /\ UNCHANGED <<poller_thread, USAGE_WATTS, dead, last_outcome, alone>>

\* lines 69-73: vue.login succeeds
LoginOk ==
    /\ pc = "login"
    /\ pc' = "get_devices"
    /\ logged_in' = TRUE
    /\ UNCHANGED <<timers, poller_thread, retry_login, poll_interval, devices, didx,
                   channels_usage, uidx, USAGE_WATTS, dead, cycle, last_outcome,
                   watts_before, alone>>

\* lines 74-79: vue.login raises
LoginFails ==
    /\ pc = "login"
    /\ RescheduleAfterLoginFailure

\* line 82: vue.get_devices raises
GetDevicesFails ==
    /\ pc = "get_devices"
    /\ RescheduleAfterError("api_error")

\* lines 82-101: vue.get_devices returns a list, which is aggregated
GetDevices ==
    /\ pc = "get_devices"
    /\ \E got \in DeviceLists :
        LET r == Aggregate(got) IN
        IF r.raised
        THEN RescheduleAfterError("type_error")
        ELSE /\ devices' = r.devices
             /\ didx' = 1
             /\ pc' = "device"
             /\ UNCHANGED <<timers, poller_thread, last_outcome, retry_login,
                            poll_interval, channels_usage, uidx, USAGE_WATTS, dead,
                            cycle, logged_in, watts_before, alone>>

\* position after the body of the loop of line 120 for reading i of usage;
\* after the last reading the loop of line 104 goes on
AfterReading(usage, i) ==
    IF i < Len(usage)
    THEN /\ channels_usage' = usage
         /\ uidx' = i + 1
         /\ pc' = "reading"
         /\ UNCHANGED didx
    ELSE /\ channels_usage' = <<>>
         /\ uidx' = 0
         /\ pc' = "device"
         /\ didx' = didx + 1

\* lines 104-108 for a device whose channels is None: len(None) raises
DeviceChannelsNone ==
    /\ pc = "device"
    /\ didx <= Len(devices)
    /\ IsNone(devices[didx].channels)
    /\ RescheduleAfterError("type_error")

\* line 114: vue.get_devices_usage raises
GetUsageFails ==
    /\ pc = "device"
    /\ didx <= Len(devices)
    /\ ~IsNone(devices[didx].channels)
    /\ RescheduleAfterError("api_error")

\* lines 104-115: vue.get_devices_usage returns the readings of the device
GetUsage ==
    /\ pc = "device"
    /\ didx <= Len(devices)
    /\ ~IsNone(devices[didx].channels)
    /\ \E usage \in UsageLists :
        AfterReading(usage, 0)
    /\ UNCHANGED <<timers, poller_thread, retry_login, poll_interval, devices,
                   USAGE_WATTS, dead, cycle, logged_in, last_outcome, watts_before, alone>>

\* SetGauge forgetting the samples of the other label tuples
SetGaugeOnly(gauge, key, watts) == {[key |-> key, watts |-> watts]}

\* SetGauge keeping the watts a label tuple already has
SetGaugeKeepingOld(gauge, key, watts) ==
    IF \E e \in gauge : e.key = key THEN gauge
    ELSE gauge \cup {[key |-> key, watts |-> watts]}

\* USAGE_WATTS.labels(...).set(watts)
SetGauge(gauge, key, watts) ==
    { e \in gauge : e.key # key } \cup {[key |-> key, watts |-> watts]}

\* ReadingSkipped letting the StopIteration reach the except branch of line 157
ReadingSkippedRaises ==
    /\ pc = "reading"
    /\ FindChannel(Val(devices[didx].channels), channels_usage[uidx].channel_num) = 0
    /\ RescheduleAfterError("type_error")

\* lines 144-146: the reading matches no channel of the device
ReadingSkipped ==
    /\ pc = "reading"
    /\ FindChannel(Val(devices[didx].channels), channels_usage[uidx].channel_num) = 0
    /\ AfterReading(channels_usage, uidx)
    /\ UNCHANGED <<timers, poller_thread, retry_login, poll_interval, devices,
                   USAGE_WATTS, dead, cycle, logged_in, last_outcome,
                   watts_before, alone>>

\* line 149 for a matched reading whose usage is None: None * float raises
ReadingUsageNone ==
    /\ pc = "reading"
    /\ FindChannel(Val(devices[didx].channels), channels_usage[uidx].channel_num) # 0
    /\ IsNone(channels_usage[uidx].usage)
    /\ RescheduleAfterError("type_error")

\* lines 120-152 for a matched reading with a usage
ReadingRecorded ==
    /\ pc = "reading"
    /\ LET device == devices[didx]
           u == channels_usage[uidx]
           i == FindChannel(Val(device.channels), u.channel_num)
       IN  /\ i # 0
           /\ ~IsNone(u.usage)
           /\ \E s \in {Sample(device, u)} :
                  USAGE_WATTS' = SetGauge(USAGE_WATTS, s.key, s.watts)
    /\ AfterReading(channels_usage, uidx)
    /\ UNCHANGED <<timers, poller_thread, retry_login, poll_interval, devices,
                   dead, cycle, logged_in, last_outcome, watts_before, alone>>

\* lines 154-156: the loop of line 104 is over
FinishPoll ==
    /\ pc = "device"
    /\ didx > Len(devices)
    /\ RescheduleAfterSuccess

\* die (lines 48-57): poller_thread.cancel() stops the Timer poller_thread
\* refers to if it has not fired; sys.exit raises SystemExit in the calling
\* thread only, and the Timer threads, which are not daemon threads, go on
die ==
    /\ ~dead
    /\ dead' = TRUE
    /\ timers' = { t \in timers : t.id # poller_thread }
    /\ UNCHANGED <<poller_thread, pc, retry_login, poll_interval, devices, didx,
                   channels_usage, uidx, USAGE_WATTS, cycle, logged_in, last_outcome,
                   watts_before, alone>>

Next ==
    \/ TimerFire
    \/ LoginOk
    \/ LoginFails
    \/ GetDevicesFails
    \/ GetDevices
    \/ DeviceChannelsNone
    \/ GetUsageFails
    \/ GetUsage
    \/ ReadingSkipped
    \/ ReadingUsageNone
    \/ ReadingRecorded
    \/ FinishPoll
    \/ die

Spec == Init /\ [][Next]_vars

(***************************************************************************)
(* The poller with no shutdown: die is never called. A started Timer fires *)
(* when its interval is over and every call of an invocation returns or    *)
(* raises, so a step that can be taken is taken.                           *)
(***************************************************************************)
NextNoDie ==
    \/ TimerFire
    \/ LoginOk
    \/ LoginFails
    \/ GetDevicesFails
    \/ GetDevices
    \/ DeviceChannelsNone
    \/ GetUsageFails
    \/ GetUsage
    \/ ReadingSkipped
    \/ ReadingUsageNone
    \/ ReadingRecorded
    \/ FinishPoll

SpecNoDie == Init /\ [][NextNoDie]_vars /\ WF_vars(NextNoDie)

(***************************************************************************)
(* The label derivation alone: name grows one character at a time and      *)
(* line 148 is applied to it.                                              *)
(***************************************************************************)
\* an upper-case letter, the underscore and a character outside [a-z0-9_]
NameChars == {"A", "_", "!"}

AppendChar ==
    /\ IsNone(label)
    /\ Len(name) < MaxNameLen
    /\ \E c \in NameChars : name' = Append(name, c)
    /\ UNCHANGED <<pollVars, label, device_list, aggregated, reading_vars>>

\* line 148
DeriveLabel ==
    /\ IsNone(label)
    /\ label' = Some(ChannelLabel(name))
    /\ UNCHANGED <<pollVars, name, device_list, aggregated, reading_vars>>

NextLabel == AppendChar \/ DeriveLabel

SpecLabel == Init /\ [][NextLabel]_vars

(***************************************************************************)
(* The aggregation alone: lines 86-101 applied to a list of raw records.   *)
(***************************************************************************)
InitAggregate ==
    /\ device_list \in RawDeviceLists
    /\ aggregated = None
    /\ name = <<>>
    /\ label = None
    /\ timers = {}
    /\ poller_thread = 0
    /\ pc = "idle"
    /\ retry_login = FALSE
    /\ poll_interval = 0
    /\ devices = <<>>
    /\ didx = 0
    /\ channels_usage = <<>>
    /\ uidx = 0
    /\ USAGE_WATTS = {}
    /\ dead = FALSE
    /\ cycle = 0
    /\ logged_in = FALSE
    /\ last_outcome = "none"
    /\ watts_before = {}
    /\ one_device = None
    /\ one_reading = None
    /\ locals = None
    /\ sample = None
    /\ outcome = "none"

\* lines 86-101
AggregateList ==
    /\ IsNone(aggregated)
    /\ aggregated' = Some(Aggregate(device_list))
    /\ UNCHANGED <<pollVars, name, label, device_list, reading_vars>>

NextAggregate == AggregateList

SpecAggregate == InitAggregate /\ [][NextAggregate]_vars

(***************************************************************************)
(* One reading alone: the body of the loop of line 120 applied to one      *)
(* reading u of one cached device.                                         *)
(***************************************************************************)
InitReading ==
    /\ one_device \in MatchDevices
    /\ one_reading \in MatchReadings
    /\ locals = None
    /\ sample = None
    /\ outcome = "none"
    /\ name = <<>>
    /\ label = None
    /\ device_list = <<>>
    /\ aggregated = None
    /\ timers = {}
    /\ poller_thread = 0
    /\ pc = "idle"
    /\ retry_login = FALSE
    /\ poll_interval = 0
    /\ devices = <<>>
    /\ didx = 0
    /\ channels_usage = <<>>
    /\ uidx = 0
    /\ USAGE_WATTS = {}
    /\ dead = FALSE
    /\ cycle = 0
    /\ logged_in = FALSE
    /\ last_outcome = "none"
    /\ watts_before = {}

\* lines 144-146: StopIteration, the reading is passed over
MatchSkipped ==
    /\ outcome = "none"
    /\ FindChannel(Val(one_device.channels), one_reading.channel_num) = 0
    /\ outcome' = "skipped"
    /\ UNCHANGED <<pollVars, name, label, device_list, aggregated,
                   one_device, one_reading, locals, sample>>

\* lines 121-149 for a matched reading whose usage is None: the locals are
\* assigned, then None * float raises at line 149
MatchUsageNone ==
    /\ outcome = "none"
    /\ FindChannel(Val(one_device.channels), one_reading.channel_num) # 0
    /\ IsNone(one_reading.usage)
    /\ locals' = Some(ReadingLocals(one_device, one_reading))
    /\ outcome' = "raised"
    /\ UNCHANGED <<pollVars, name, label, device_list, aggregated,
                   one_device, one_reading, sample>>

\* lines 121-152 for a matched reading with a usage
MatchRecorded ==
    /\ outcome = "none"
    /\ FindChannel(Val(one_device.channels), one_reading.channel_num) # 0
    /\ ~IsNone(one_reading.usage)
    /\ locals' = Some(ReadingLocals(one_device, one_reading))
    /\ sample' = Some(Sample(one_device, one_reading))
    /\ outcome' = "set"
    /\ UNCHANGED <<pollVars, name, label, device_list, aggregated,
                   one_device, one_reading>>

NextReading == MatchSkipped \/ MatchUsageNone \/ MatchRecorded

SpecReading == InitReading /\ [][NextReading]_vars

(***************************************************************************)
(* Properties.                                                             *)
(***************************************************************************)
\* an invocation has just ended with how and its successor Timer is still there
EndedWith(how) == pc = "idle" /\ last_outcome = how

DataCallStates == {"get_devices", "device", "reading"}

\* C1: after an invocation in which vue.get_devices or vue.get_devices_usage
\* raised, exactly one Timer is started, and it asks for a login after 5
\* seconds whatever the poll interval is (die() may cancel it afterwards).
C1_ApiErrorRetriesWithLoginAfter5s ==
    EndedWith("api_error") =>
        \/ /\ Cardinality(timers) = 1
           /\ \A t \in timers :
                /\ t.id = cycle
                /\ t.retry_login
                /\ t.interval = 5
                /\ t.interval # CreateAppPollInterval
        \/ dead /\ timers = {}

C1_Witness ==
    /\ EndedWith("api_error")
    /\ ~dead
    /\ \E t \in timers : t.id = cycle /\ t.retry_login

\* C2 as stated: after an invocation whose login failed, the Timer started
\* asks for a login after the 5 seconds used after a mid-poll failure.
C2_LoginFailureRetriesAfter5s ==
    EndedWith("login_failed") =>
        \A t \in timers : t.retry_login /\ t.interval = ErrorRetryDelay

\* C2 as amended: after an invocation whose login failed, exactly one Timer is
\* started, and it asks for a login after the poll interval of the invocation
\* (60 seconds), not after the 5 seconds used after a mid-poll failure.
C2_LoginFailureRetriesAfterPollInterval ==
    EndedWith("login_failed") =>
        \/ /\ Cardinality(timers) = 1
           /\ \A t \in timers :
                /\ t.id = cycle
                /\ t.retry_login
                /\ t.interval = CreateAppPollInterval
                /\ t.interval # ErrorRetryDelay
        \/ dead /\ timers = {}

C2_Witness ==
    /\ EndedWith("login_failed")
    /\ ~dead
    /\ \E t \in timers : t.id = cycle /\ t.retry_login

\* C3: after every invocation whose polling phase completed, the first or a
\* later one, the Timer started asks for no login after the poll interval
\* create_app set, and the invocation it starts calls vue.get_devices without
\* having called vue.login.
C3_SuccessPollsAgainAfterIntervalWithoutLogin ==
    /\ EndedWith("ok") =>
        \/ /\ Cardinality(timers) = 1
           /\ \A t \in timers :
                /\ t.id = cycle
                /\ ~t.retry_login
                /\ t.interval = CreateAppPollInterval
        \/ dead /\ timers = {}
    /\ (pc # "idle" /\ last_outcome = "ok") =>
        /\ pc \in DataCallStates
        /\ ~retry_login
        /\ ~logged_in

\* the second invocation completed its polling phase, and so did the first,
\* since the second did not log in
C3_Witness ==
    /\ EndedWith("ok")
    /\ cycle = 2
    /\ \E t \in timers : t.id = 2 /\ ~t.retry_login

\* C4: an invocation is at a data call (vue.get_devices, vue.get_devices_usage
\* and the processing of its readings) only if it has logged in or the
\* invocation before it completed its polling phase; the first invocation
\* logs in first.
C4_DataCallsNeedSession ==
    /\ pc \in DataCallStates => (logged_in \/ last_outcome = "ok")
    /\ (pc \in DataCallStates /\ cycle = 1) => logged_in
    /\ pc = "login" => ~logged_in

\* the invocation after a failed one is at a data call, having logged in
C4_Witness ==
    /\ pc \in DataCallStates
    /\ cycle = 2
    /\ last_outcome \in {"api_error", "type_error", "login_failed"}
    /\ logged_in

\* C5: once die() has run, no invocation of poll_emporia starts.
C5_NoCycleStartsAfterDie == [][dead => cycle' = cycle]_vars

\* the reading the loop of line 120 is at
CurrentReading == channels_usage[uidx]

CurrentChannels == Val(devices[didx].channels)

\* C6: a reading whose usage is None writes nothing to the gauge and does not
\* end the invocation: the loops go on with the next reading or device.
C6_NullUsageIsSkipped ==
    [][(pc = "reading" /\ IsNone(CurrentReading.usage)) =>
          (USAGE_WATTS' = USAGE_WATTS /\ pc' \in {"reading", "device"})]_vars

\* an invocation ends because vue.get_devices or vue.get_devices_usage raised
EndsWithApiError == pc # "idle" /\ pc' = "idle" /\ last_outcome' = "api_error"

\* the samples that differ between two gauges
Differing(g, h) == (g \ h) \cup (h \ g)

\* C7 as stated: when an invocation ends because a remote call of the polling
\* phase raised, the gauge is what it was when the invocation started.
C7_ApiErrorDiscardsWrites ==
    [][EndsWithApiError => USAGE_WATTS' = watts_before]_vars

\* C7 as amended: when an invocation ends because vue.get_devices raised, the
\* gauge is what it was when the invocation started; when it ends because
\* vue.get_devices_usage raised for a device, the samples written for the
\* devices before it stay, and only samples of those devices differ from the
\* gauge the invocation started with.
C7_ApiErrorKeepsEarlierDevices ==
    [][EndsWithApiError =>
          /\ USAGE_WATTS' = USAGE_WATTS
          /\ pc = "get_devices" => USAGE_WATTS' = watts_before
          /\ pc = "device" =>
                \A e \in Differing(USAGE_WATTS', watts_before) :
                    \E j \in 1..(didx - 1) : devices[j].device_gid = e.key[4]]_vars

\* the first invocation, which started with an empty gauge, ended because a
\* remote call raised, and the gauge holds a sample
C7_Witness ==
    /\ EndedWith("api_error")
    /\ cycle = 1
    /\ USAGE_WATTS # {}

\* None as the empty list
ChannelsOf(device) == IF IsNone(device.channels) THEN <<>> ELSE Val(device.channels)

\* the channel lists of the records of list with gid, concatenated in order
RECURSIVE ConcatChannels(_, _)
ConcatChannels(list, gid) ==
    IF list = <<>> THEN <<>>
    ELSE (IF Head(list).device_gid = gid THEN ChannelsOf(Head(list)) ELSE <<>>)
         \o ConcatChannels(Tail(list), gid)

FirstWithGid(list, gid) ==
    list[CHOOSE i \in 1..Len(list) :
            /\ list[i].device_gid = gid
            /\ \A j \in 1..(i - 1) : list[j].device_gid # gid]

\* C8: the aggregation of any list of raw records yields one device per gid,
\* whose channels are the channels of the records of that gid concatenated in
\* the order of the list (None counting as the empty list) and whose name is
\* that of the first record of the gid.
C8_MergeLaw ==
    ~IsNone(aggregated) =>
        LET r == Val(aggregated) IN
        /\ ~r.raised
        /\ { r.devices[i].device_gid : i \in 1..Len(r.devices) }
              = { device_list[i].device_gid : i \in 1..Len(device_list) }
        /\ \A i, j \in 1..Len(r.devices) :
              r.devices[i].device_gid = r.devices[j].device_gid => i = j
        /\ \A i \in 1..Len(r.devices) :
              /\ ChannelsOf(r.devices[i])
                    = ConcatChannels(device_list, r.devices[i].device_gid)
              /\ r.devices[i].device_name
                    = FirstWithGid(device_list, r.devices[i].device_gid).device_name

\* C9: a reading whose channel number is the number of no channel of its
\* device writes nothing to the gauge and does not end the invocation: the
\* loops go on with the next reading, or with the next device after the last
\* reading, and an invocation whose loops are over ends as a successful poll.
C9_UnmatchedReadingIsSkipped ==
    [][/\ (pc = "reading" /\ FindChannel(CurrentChannels, CurrentReading.channel_num) = 0) =>
            /\ USAGE_WATTS' = USAGE_WATTS
            /\ last_outcome' = last_outcome
            /\ timers' \subseteq timers
            /\ \/ pc' = "reading" /\ didx' = didx /\ uidx' \in {uidx, uidx + 1}
               \/ pc' = "device" /\ didx' = didx + 1 /\ uidx = Len(channels_usage)
       /\ (pc = "device" /\ didx > Len(devices) /\ pc' = "idle") =>
            /\ last_outcome' = "ok"
            /\ \E t \in timers' : t.id = cycle /\ ~t.retry_login]_vars

\* the first reading of a device matched no channel and the loop is at the
\* second reading, which matches one and has a usage
C9_Witness ==
    /\ pc = "reading"
    /\ uidx = 2
    /\ FindChannel(CurrentChannels, channels_usage[1].channel_num) = 0
    /\ FindChannel(CurrentChannels, CurrentReading.channel_num) # 0
    /\ ~IsNone(CurrentReading.usage)

\* C10: the label derivation is idempotent: deriving a label from a derived
\* label gives that label.
C10_LabelIdempotent ==
    ~IsNone(label) => ChannelLabel(Val(label)) = Val(label)

\* the string s without its leading characters outside [a-z0-9_]
RECURSIVE DropOutside(_)
DropOutside(s) ==
    IF s = <<>> \/ InClass(Head(s)) THEN s ELSE DropOutside(Tail(s))

\* s with every maximal run of characters outside [a-z0-9_] replaced by one
\* '_' and every other character kept
RECURSIVE ReplaceRuns(_)
ReplaceRuns(s) ==
    IF s = <<>> THEN <<>>
    ELSE IF InClass(Head(s)) THEN <<Head(s)>> \o ReplaceRuns(Tail(s))
    ELSE <<"_">> \o ReplaceRuns(DropOutside(s))

\* the label the claim C11 describes, compared with the derived one: they
\* differ on mixed runs such as "_!" as well as on the eleven-character input
LabelIsRunsReplaced ==
    ~IsNone(label) => Val(label) = ReplaceRuns(Lower(name))

\* C11: the derived label is the lower-cased name with every maximal run of
\* characters outside [a-z0-9_] replaced by one '_'; stated here by what the
\* claim draws from it: the label holds no character outside [a-z0-9_].
C11_LabelHasOnlyClassChars ==
    ~IsNone(label) => \A i \in 1..Len(Val(label)) : InClass(Val(label)[i])

\* the positions of the channels of one_device that carry the reading's number
Hits ==
    { i \in 1..Len(Val(one_device.channels)) :
        Val(one_device.channels)[i].channel_num = one_reading.channel_num }

\* the first of them in list order
FirstHit == CHOOSE i \in Hits : \A j \in Hits : i <= j

\* C12: a reading is matched to the first channel of the device, in list
\* order, with the reading's channel number; the name is the channel's own
\* name when it has one, else "<device name> Mains" for the number "1,2,3",
\* else "<device name>-<channel number>"; the multiplier is that channel's.
C12_FirstMatchNamesAndScales ==
    ~IsNone(locals) =>
        /\ Hits # {}
        /\ LET channel == Val(one_device.channels)[FirstHit]
               l == Val(locals)
           IN  /\ l.usage_multiplier = channel.channel_multiplier
               /\ ~IsNone(channel.name) => l.channel_name = Val(channel.name)
               /\ IsNone(channel.name) /\ one_reading.channel_num = <<"1", ",", "2", ",", "3">> =>
                     l.channel_name = one_device.device_name \o <<" ", "M", "a", "i", "n", "s">>
               /\ IsNone(channel.name) /\ one_reading.channel_num # <<"1", ",", "2", ",", "3">> =>
                     l.channel_name = one_device.device_name \o <<"-">> \o one_reading.channel_num

\* a reading matched by two channels of which the first is unnamed and the
\* second named, with different multipliers
C12_Witness ==
    /\ outcome = "set"
    /\ Cardinality(Hits) = 2
    /\ \E i, j \in Hits :
          /\ i < j
          /\ IsNone(Val(one_device.channels)[i].name)
          /\ ~IsNone(Val(one_device.channels)[j].name)
          /\ Val(one_device.channels)[i].channel_multiplier
                # Val(one_device.channels)[j].channel_multiplier

\* C17: the watts reported are usage * multiplier * 1000 * 60, so 0.01 kWh
\* with the multiplier 1 is 600 W (in hundredths: 1 gives 60000).
C17_WattsFormula ==
    outcome = "set" =>
        LET multiplier == Val(one_device.channels)[FirstHit].channel_multiplier
        IN  /\ Val(sample).watts = Val(one_reading.usage) * multiplier * 1000 * 60
            /\ Val(one_reading.usage) = 1 /\ multiplier = 1 => Val(sample).watts = 60000

\* 0.01 kWh on a channel with the multiplier 1 has been reported
C17_Witness ==
    /\ outcome = "set"
    /\ Val(one_reading.usage) = 1
    /\ Val(locals).usage_multiplier = 1
    /\ Val(sample).watts = 60000

\* C13: when the login of the first invocation after the start fails, the
\* process ends (no retry is scheduled); when the login of a later invocation
\* fails, a retry is scheduled.
C13_FirstLoginFailureIsFatal ==
    [][pc = "login" /\ pc' = "idle" =>
          IF cycle = 1
          THEN dead' /\ timers' = {}
          ELSE \E t \in timers' : t.id = cycle /\ t.retry_login]_vars

\* C14: with no shutdown, every invocation, however it ends, ends by starting
\* exactly one Timer for the next one, and each invocation is followed by a
\* later one (up to the MaxCycles invocations the model runs).
C14_PollingNeverStops ==
    /\ [][pc # "idle" /\ pc' = "idle" =>
            /\ Cardinality(timers') = Cardinality(timers) + 1
            /\ Cardinality(timers') = 1
            /\ \A t \in timers' : t.id = cycle]_vars
    /\ \A n \in 0..(MaxCycles - 1) : (cycle = n) ~> (cycle = n + 1)

\* an invocation runs after one that ended in the except branch of line 157
C14_Witness ==
    /\ cycle = 2
    /\ pc = "login"
    /\ last_outcome \in {"api_error", "type_error"}
    /\ ~dead

\* the label tuples the gauge holds a sample for
Keys(gauge) == { e.key : e \in gauge }

\* the step is the write of lines 148-152 for the current reading
WritesSample ==
    /\ pc = "reading"
    /\ FindChannel(CurrentChannels, CurrentReading.channel_num) # 0
    /\ ~IsNone(CurrentReading.usage)
    /\ <<pc, didx, uidx>>' # <<pc, didx, uidx>>

\* C15: the set of keys of the gauge never shrinks; a key holds one value, the
\* watts of the latest write to it; a step that is no write to a key leaves
\* the value of the key as it was.
C15_KeysAccumulateLastWriteWins ==
    [][/\ Keys(USAGE_WATTS) \subseteq Keys(USAGE_WATTS')
       /\ \A e, f \in USAGE_WATTS' : e.key = f.key => e = f
       /\ IF WritesSample
          THEN \E s \in {Sample(devices[didx], CurrentReading)} :
                  /\ [key |-> s.key, watts |-> s.watts] \in USAGE_WATTS'
                  /\ \A e \in USAGE_WATTS : e.key # s.key => e \in USAGE_WATTS'
                  /\ Keys(USAGE_WATTS') = Keys(USAGE_WATTS) \cup {s.key}
          ELSE USAGE_WATTS' = USAGE_WATTS]_vars

\* the second invocation has overwritten the watts of a key the first one
\* wrote, and the gauge holds another key as well
C15_Witness ==
    /\ cycle = 2
    /\ \E e \in USAGE_WATTS, f \in watts_before : e.key = f.key /\ e.watts # f.watts
    /\ Cardinality(Keys(USAGE_WATTS)) > 1

\* no channel number occurs twice in channels
UniqueNumbers(channels) ==
    \A i, j \in 1..Len(channels) :
        channels[i].channel_num = channels[j].channel_num => i = j

C18_CyclesNeverOverlap ==
    /\ [](Cardinality(timers) <= 1)
    /\ [](pc # "idle" => timers = {})
    /\ [][timers' \ timers # {} => pc # "idle" /\ pc' = "idle"]_vars

\* the second invocation runs and no Timer is pending
C18_Witness ==
    /\ cycle = 2
    /\ pc \in DataCallStates
    /\ timers = {}
    /\ ~dead

\* the step in which vue.get_devices_usage raises for the current device
UsageFetchRaises ==
    /\ pc = "device"
    /\ didx <= Len(devices)
    /\ ~IsNone(devices[didx].channels)
    /\ pc' = "idle"
    /\ last_outcome' = "api_error"

\* C19: in one invocation the devices are handled one after another, each
\* with all its readings before the next, and every write is for the current
\* device; when the usage fetch of a device raises, the step writes nothing
\* and ends the invocation, the devices after it included, nothing is fetched
\* or written until the next invocation, and that one starts with the login.
C19_DevicesInTurnAndErrorEndsCycle ==
    [][/\ (pc \in {"device", "reading"} /\ pc' \in {"device", "reading"}) =>
            /\ didx' \in {didx, didx + 1}
            /\ devices' = devices
            /\ pc' = "reading" => didx' = didx
            /\ didx' = didx + 1 => pc' = "device" /\ (pc = "reading" => uidx = Len(channels_usage))
       /\ USAGE_WATTS' # USAGE_WATTS =>
            /\ pc = "reading"
            /\ \A e \in USAGE_WATTS' \ USAGE_WATTS : e.key[4] = devices[didx].device_gid
       /\ UsageFetchRaises =>
            /\ USAGE_WATTS' = USAGE_WATTS
            /\ devices' = <<>>
            /\ cycle' = cycle
       /\ (EndedWith("api_error") /\ pc' # "idle") =>
            /\ pc' = "login"
            /\ cycle' = cycle + 1
            /\ USAGE_WATTS' = USAGE_WATTS]_vars

\* the login of the retry is next, after an invocation that wrote the sample
\* of one device and then failed to fetch the usage of a later one
C19_Witness ==
    /\ cycle = 2
    /\ pc = "login"
    /\ last_outcome = "api_error"
    /\ Cardinality(USAGE_WATTS) = 1
    /\ watts_before = USAGE_WATTS

====
